---------------------------- MODULE Spec2Model ----------------------------
(***************************************************************************)
(* Model of scripts/knockout.js: the knockout (matting) pipeline           *)
(* knockoutProcess and its helpers otsu, dilate, erode, sobelMag, floodBG  *)
(* and peelOutside.                                                        *)
(*                                                                         *)
(* A W x H buffer (Uint8Array) is a function from the pixel indices        *)
(* 0..W*H-1 to its byte values; pixel (x, y) has index y*W + x.            *)
(***************************************************************************)
EXTENDS Integers, Sequences, FiniteSets, TLC

VARIABLES
  W, H,          \* imgBitmap.width, imgBitmap.height
  img,           \* the source pixels: img[p] = v stands for r = g = b = v
  gap,           \* opts.gap
  pc,            \* position in knockoutProcess, or in a helper call
  gray,          \* toGray(imgData)
  thrInk,        \* blended ink threshold
  ink_mask,      \* gray <= thrInk
  ink_morph,     \* ink mask shaped by gap, then opened
  edge_dil,      \* dilated Sobel edge mask
  rect,          \* <<rx, ry, rw, rh>>
  edge_dil2,     \* filtered edge mask
  ink_barrier,   \* guarded ink barrier
  seam,          \* seam strip
  muro,          \* wall mask
  bg,            \* floodBG result
  fg,            \* foreground before peeling
  peeled,        \* foreground after peelOutside
  alpha,         \* alpha channel before feathering
  arg,           \* arguments of a helper called on its own
  ret            \* what that helper returned

vars == <<W, H, img, gap, pc, gray, thrInk, ink_mask, ink_morph, edge_dil,
          rect, edge_dil2, ink_barrier, seam, muro, bg, fg, peeled, alpha,
          arg, ret>>

(* ------------------------------ bounds -------------------------------- *)

\* largest width and height of an image run through knockoutProcess
MaxDim == 6
\* largest width and height of a mask handed to a helper called on its own
MaxOpDim == 3
\* largest width and height of the two masks handed to peelOutside
MaxPeelDim == 2
\* largest iteration count handed to dilate, erode and peelOutside
MaxIt == 3
\* gap ranges over -MaxGap .. MaxGap where the ink shaping is run on its own
MaxGap == 1
\* longest buffer handed to otsu called on its own
MaxLen == 3

(* ----------------------- constants of the code ------------------------ *)

InkDefault  == 64     \* opts.ink
GapDefault  == -1     \* opts.gap
EdgeDefault == 18     \* opts.edge
OtsuDefault == 96     \* thr before the sweep
CLEAN       == 1      \* iterations of the opening
PeelPasses  == 5      \* peelOutside(fg, ink_morph, W, H, 5)

(* ------------------------------ helpers ------------------------------- *)

Pix(w, h) == 0 .. (w * h - 1)
Min(a, b) == IF a < b THEN a ELSE b
Max(a, b) == IF a > b THEN a ELSE b
Abs(a) == IF a < 0 THEN -a ELSE a
None == <<>>
\* a buffer filled once from the values f gives (f itself, as a function)
Buffer(f) == f @@ <<>>
Zeros(w, h) == Buffer([p \in Pix(w, h) |-> 0])

\* toGray, one pixel: min(255, (0.299 r + 0.587 g + 0.114 b) | 0).  The
\* weights are taken in thousandths; for r = g = b in {0, 255}, the only
\* pixels the model feeds it, the double arithmetic gives the same byte.
Luma(r, g, b) == Min(255, (299 * r + 587 * g + 114 * b) \div 1000)

toGray(data, w, h) == Buffer([p \in Pix(w, h) |-> Luma(data[p], data[p], data[p])])

(* -------------------------------- otsu -------------------------------- *)

\* vb = wB*wF*(mB-mF)^2 with mB = sumB/wB, mF = (sum-sumB)/wF, kept as the
\* exact fraction x^2 / d:  x = |sumB*wF - (sum-sumB)*wB|,  d = wB*wF.
BetweenVar(wB, wF, sumB, sum) ==
  [x |-> Abs(sumB * wF - (sum - sumB) * wB), d |-> wB * wF]

\* vb > varMax on those fractions (equal fractions and a zero varMax are
\* decided without multiplying).
VarGreaterEq(vb, varMax) ==
  IF vb = varMax THEN TRUE
  ELSE IF varMax.x = 0 THEN TRUE
  ELSE vb.x * vb.x * varMax.d >= varMax.x * varMax.x * vb.d

VarGreater(vb, varMax) ==
  IF vb = varMax THEN FALSE
  ELSE IF varMax.x = 0 THEN vb.x # 0
  ELSE vb.x * vb.x * varMax.d > varMax.x * varMax.x * vb.d

\* one turn of the sweep `for (t = 0; t < 256; t++)`.  st holds the loop's
\* variables; st.stop is set by the `break`.
OtsuStep(hist, total, sum, st, t) ==
  IF st.stop THEN st
  ELSE LET wB1 == st.wB + hist[t] IN
       IF wB1 = 0 THEN [st EXCEPT !.wB = wB1]
       ELSE LET wF == total - wB1 IN
            IF wF = 0 THEN [st EXCEPT !.wB = wB1, !.stop = TRUE]
            ELSE LET sumB1 == st.sumB + t * hist[t]
                     vb == BetweenVar(wB1, wF, sumB1, sum)
                 IN  IF VarGreater(vb, st.varMax)
                     THEN [st EXCEPT !.wB = wB1, !.sumB = sumB1, !.varMax = vb, !.thr = t]
                     ELSE [st EXCEPT !.wB = wB1, !.sumB = sumB1]

\* the turns lo..hi in order (the range is halved to keep the nesting shallow)
RECURSIVE OtsuSweep(_, _, _, _, _, _)
OtsuSweep(hist, total, sum, st, lo, hi) ==
  IF lo = hi THEN OtsuStep(hist, total, sum, st, lo)
  ELSE LET mid == (lo + hi) \div 2
           half == OtsuSweep(hist, total, sum, st, lo, mid)
       IN  IF half.stop THEN half
           ELSE OtsuSweep(hist, total, sum, half, mid + 1, hi)

\* sum of t*hist[t] for t in lo..hi
RECURSIVE HistSum(_, _, _)
HistSum(hist, lo, hi) ==
  IF lo = hi THEN lo * hist[lo]
  ELSE LET mid == (lo + hi) \div 2 IN HistSum(hist, lo, mid) + HistSum(hist, mid + 1, hi)

\* g is the buffer, a function on 0..n-1
otsu(g) ==
  LET levels == {g[i] : i \in DOMAIN g}
      hist == Buffer([t \in 0 .. 255 |->
                 IF t \in levels THEN Cardinality({i \in DOMAIN g : g[i] = t}) ELSE 0])
      total == Cardinality(DOMAIN g)
      sum == HistSum(hist, 0, 255)
      st0 == [sumB |-> 0, wB |-> 0, varMax |-> [x |-> 0, d |-> 1],
              thr |-> OtsuDefault, stop |-> FALSE]
  IN  OtsuSweep(hist, total, sum, st0, 0, 255).thr

(* ----------------------------- morphology ----------------------------- *)

\* pad[(py)*(W+2) + px]: the mask copied at offset (1, 1) into zeros
PadAt(a, w, h, px, py) ==
  IF px >= 1 /\ px <= w /\ py >= 1 /\ py <= h THEN a[(py - 1) * w + (px - 1)] ELSE 0

DilateNoSelf(a, w, h) ==
  Buffer([p \in Pix(w, h) |->
     IF \E dy \in 0 .. 2, dx \in 0 .. 2 :
          /\ <<dx, dy>> # <<1, 1>>
          /\ PadAt(a, w, h, (p % w) + dx, (p \div w) + dy) > 0
     THEN 1 ELSE 0])

\* one pass of dilate's loop body
DilatePass(a, w, h) ==
  Buffer([p \in Pix(w, h) |->
     IF \E dy \in 0 .. 2, dx \in 0 .. 2 :
          PadAt(a, w, h, (p % w) + dx, (p \div w) + dy) > 0
     THEN 1 ELSE 0])

\* one pass of erode's loop body
ErodePass(a, w, h) ==
  Buffer([p \in Pix(w, h) |->
     IF \A dy \in 0 .. 2, dx \in 0 .. 2 :
          PadAt(a, w, h, (p % w) + dx, (p \div w) + dy) > 0
     THEN 1 ELSE 0])

RECURSIVE dilate(_, _, _, _)
dilate(m, w, h, it) ==
  IF it <= 0 THEN m ELSE dilate(DilatePass(m, w, h), w, h, it - 1)

RECURSIVE erode(_, _, _, _)
erode(m, w, h, it) ==
  IF it <= 0 THEN m ELSE erode(ErodePass(m, w, h), w, h, it - 1)

(* ------------------------------- sobel -------------------------------- *)

\* get(x, y): border-clamped sample
SobelGet(g, w, h, x, y) == g[Max(0, Min(h - 1, y)) * w + Max(0, Min(w - 1, x))]

\* min(255, hypot(gx, gy) | 0)
HypotByte(gx, gy) ==
  LET s == gx * gx + gy * gy IN
  IF s = 0 THEN 0
  ELSE IF s >= 255 * 255 THEN 255
  ELSE CHOOSE k \in 0 .. 254 : k * k <= s /\ s < (k + 1) * (k + 1)

sobelMag(g, w, h) ==
  Buffer([p \in Pix(w, h) |->
     LET x == p % w
         y == p \div w
         a == SobelGet(g, w, h, x - 1, y - 1)
         b == SobelGet(g, w, h, x, y - 1)
         c == SobelGet(g, w, h, x + 1, y - 1)
         d == SobelGet(g, w, h, x - 1, y)
         f == SobelGet(g, w, h, x + 1, y)
         k == SobelGet(g, w, h, x - 1, y + 1)
         l == SobelGet(g, w, h, x, y + 1)
         m == SobelGet(g, w, h, x + 1, y + 1)
         gx == (-1) * a + c + (-2) * d + 2 * f + (-1) * k + m
         gy == (-1) * a - 2 * b - c + k + 2 * l + m
     IN  HypotByte(gx, gy)])

(* ------------------------------ floodBG ------------------------------- *)

\* isBgLike is null in every call the code makes; a predicate is modelled
\* by the set of the pixels it admits.
NoPred == "null"
Admits(isBgLike, p) == isBgLike = NoPred \/ p \in isBgLike

\* push(p): st = [bg, q], q the queue's contents q[0..qe-1] as a sequence
FloodPush(st, p, wall, isBgLike) ==
  IF st.bg[p] = 1 \/ wall[p] = 1 THEN st
  ELSE IF ~Admits(isBgLike, p) THEN st
  ELSE [bg |-> [st.bg EXCEPT ![p] = 1], q |-> Append(st.q, p)]

\* the seeds in the order of the two seeding loops
FloodSeeds(w, h) ==
  [i \in 1 .. (2 * w + 2 * h) |->
     IF i <= 2 * w
     THEN LET x == (i - 1) \div 2 IN IF i % 2 = 1 THEN x ELSE (h - 1) * w + x
     ELSE LET y == (i - 2 * w - 1) \div 2 IN
          IF (i - 2 * w) % 2 = 1 THEN y * w ELSE y * w + (w - 1)]

RECURSIVE FloodPushAll(_, _, _, _, _)
FloodPushAll(st, seq, i, wall, isBgLike) ==
  IF i > Len(seq) THEN st
  ELSE FloodPushAll(FloodPush(st, seq[i], wall, isBgLike), seq, i + 1, wall, isBgLike)

FloodVisitNoWall(st, p, u, wall, isBgLike, w, h) ==
  IF u < 0 \/ u >= w * h THEN st
  ELSE IF Abs((u % w) - (p % w)) + Abs((u \div w) - (p \div w)) # 1 THEN st
  ELSE IF st.bg[u] = 1 \/ ~Admits(isBgLike, u) THEN st
  ELSE [bg |-> [st.bg EXCEPT ![u] = 1], q |-> Append(st.q, u)]

\* the body of `for (const u of neigh)`
FloodVisit(st, p, u, wall, isBgLike, w, h) ==
  IF u < 0 \/ u >= w * h THEN st
  ELSE IF Abs((u % w) - (p % w)) + Abs((u \div w) - (p \div w)) # 1 THEN st
  ELSE FloodPush(st, u, wall, isBgLike)

FloodNeigh(p, w) == <<p - 1, p + 1, p - w, p + w>>

RECURSIVE FloodVisitAll(_, _, _, _, _, _, _, _)
FloodVisitAll(st, p, neigh, i, wall, isBgLike, w, h) ==
  IF i > Len(neigh) THEN st
  ELSE FloodVisitAll(FloodVisit(st, p, neigh[i], wall, isBgLike, w, h),
                     p, neigh, i + 1, wall, isBgLike, w, h)

\* while (qs < qe): qs counts the entries already taken
RECURSIVE FloodDrain(_, _, _, _, _, _)
FloodDrain(st, qs, wall, isBgLike, w, h) ==
  IF qs >= Len(st.q) THEN st.bg
  ELSE LET p == st.q[qs + 1] IN
       FloodDrain(FloodVisitAll(st, p, FloodNeigh(p, w), 1, wall, isBgLike, w, h),
                  qs + 1, wall, isBgLike, w, h)

floodBG(wall, isBgLike, w, h) ==
  LET st0 == [bg |-> Zeros(w, h), q |-> <<>>]
      st1 == FloodPushAll(st0, FloodSeeds(w, h), 1, wall, isBgLike)
  IN  FloodDrain(st1, 0, wall, isBgLike, w, h)

(* ---------------------------- peelOutside ----------------------------- *)

PeelPassNoProtect(out, protect, w, h) ==
  Buffer([i \in Pix(w, h) |->
     LET x == i % w
         y == i \div w
     IN  IF out[i] = 0 THEN out[i]
         ELSE IF \/ (x > 0 /\ out[i - 1] = 0)
                 \/ (x < w - 1 /\ out[i + 1] = 0)
                 \/ (y > 0 /\ out[i - w] = 0)
                 \/ (y < h - 1 /\ out[i + w] = 0)
              THEN 0 ELSE out[i]])

\* one pass: nxt from out
PeelPass(out, protect, w, h) ==
  Buffer([i \in Pix(w, h) |->
     LET x == i % w
         y == i \div w
     IN  IF out[i] = 0 \/ protect[i] = 1 THEN out[i]
         ELSE IF \/ (x > 0 /\ out[i - 1] = 0)
                 \/ (x < w - 1 /\ out[i + 1] = 0)
                 \/ (y > 0 /\ out[i - w] = 0)
                 \/ (y < h - 1 /\ out[i + w] = 0)
              THEN 0 ELSE out[i]])

RECURSIVE peelOutside(_, _, _, _, _)
peelOutside(f, protect, w, h, it) ==
  IF it <= 0 THEN f ELSE peelOutside(PeelPass(f, protect, w, h), protect, w, h, it - 1)

(* ------------------- knockoutProcess, stage by stage ------------------ *)

\* Math.round(0.5*(0.8*otsu(gray)) + 0.5*ink) | 0, in tenths: 0.4 t + 0.5 ink
\* rounded half up.  With ink = 64 no value is a tie.
BlendThreshold(t, ink) == (4 * t + 5 * ink + 5) \div 10

InkMask(g, thr, w, h) == Buffer([p \in Pix(w, h) |-> IF g[p] <= thr THEN 1 ELSE 0])

\* gap >= 0 dilates gap times, gap < 0 erodes -gap times; then the opening
InkMorph(m, g, w, h) ==
  LET shaped == IF g >= 0 THEN dilate(m, w, h, g) ELSE erode(m, w, h, -g)
  IN  dilate(erode(shaped, w, h, CLEAN), w, h, CLEAN)

EdgeDil(g, edge, w, h) ==
  LET mag == sobelMag(g, w, h)
      edge_bin == Buffer([p \in Pix(w, h) |-> IF mag[p] >= edge THEN 1 ELSE 0])
  IN  dilate(edge_bin, w, h, 1)

\* bounding box of the shaped ink mask, the whole image when it is empty
RoiRect(m, w, h) ==
  LET S == {p \in Pix(w, h) : m[p] # 0} IN
  IF S = {} THEN <<0, 0, w, h>>
  ELSE LET xs == {p % w : p \in S}
           ys == {p \div w : p \in S}
           minx == CHOOSE x \in xs : \A z \in xs : x <= z
           maxx == CHOOSE x \in xs : \A z \in xs : x >= z
           miny == CHOOSE y \in ys : \A z \in ys : y <= z
           maxy == CHOOSE y \in ys : \A z \in ys : y >= z
       IN  <<minx, miny, maxx - minx + 1, maxy - miny + 1>>

\* edge_dil2: edge_dil with x0..x1, y0..y1 cleared
FilterEdges(e, r, w, h) ==
  LET x0 == Max(0, r[1] - 1)
      y0 == Max(0, r[2] - 1)
      x1 == Min(w - 1, r[1] + r[3] + 1)
      y1 == Min(h - 1, r[2] + r[4] + 1)
  IN  [p \in Pix(w, h) |->
         IF (p % w) >= x0 /\ (p % w) <= x1 /\ (p \div w) >= y0 /\ (p \div w) <= y1
         THEN 0 ELSE e[p]]

GuardNoExtra(g) == Max(1, IF g > 0 THEN g ELSE 0)

Guard(g) == Max(1, IF g > 0 THEN g ELSE 0) + 1

InkBarrierFromShaped(m, g, w, h) == dilate(InkMorph(m, g, w, h), w, h, Guard(g))

\* dilate(ink_mask, W, H, guard)
InkBarrier(m, g, w, h) == dilate(m, w, h, Guard(g))

SeamStrip(r, w, h) ==
  LET yS == Min(h - 1, r[2] + r[4])
      xL == Max(0, r[1] - 2)
      xR == Min(w - 1, r[1] + r[3] + 2)
  IN  [p \in Pix(w, h) |->
         IF (p \div w) >= yS /\ (p \div w) <= Min(h - 1, yS + 1)
            /\ (p % w) >= xL /\ (p % w) <= xR
         THEN 1 ELSE 0]

Wall(barrier, e2, s, w, h) ==
  [p \in Pix(w, h) |-> IF barrier[p] # 0 \/ e2[p] # 0 \/ s[p] # 0 THEN 1 ELSE 0]

Foreground(b, w, h) == [p \in Pix(w, h) |-> IF b[p] = 0 THEN 1 ELSE 0]

AlphaMask(f, m, w, h) == [p \in Pix(w, h) |-> IF f[p] = 1 \/ m[p] = 1 THEN 255 ELSE 0]

(* ------------------------------ the runs ------------------------------ *)

\* the source images: a white field with one filled black rectangle
\* (columns c0..c1, rows r0..r1), or no rectangle at all
RectImage(w, h, c0, c1, r0, r1) ==
  [p \in Pix(w, h) |->
     IF (p % w) >= c0 /\ (p % w) <= c1 /\ (p \div w) >= r0 /\ (p \div w) <= r1
     THEN 0 ELSE 255]

\* the masks with one filled rectangle of ones, or none
RectMasks(w, h) ==
  {Zeros(w, h)}
    \cup {[p \in Pix(w, h) |->
             IF (p % w) >= c0 /\ (p % w) <= c1 /\ (p \div w) >= r0 /\ (p \div w) <= r1
             THEN 1 ELSE 0] :
            c0 \in 0 .. w - 1, c1 \in 0 .. w - 1, r0 \in 0 .. h - 1, r1 \in 0 .. h - 1}

Images(w, h) ==
  {[p \in Pix(w, h) |-> 255]}
    \cup {RectImage(w, h, c0, c1, r0, r1) :
            c0 \in 0 .. w - 1, c1 \in 0 .. w - 1, r0 \in 0 .. h - 1, r1 \in 0 .. h - 1}

Idle ==
  /\ gray = None /\ thrInk = 0 /\ ink_mask = None /\ ink_morph = None
  /\ edge_dil = None /\ rect = None /\ edge_dil2 = None /\ ink_barrier = None
  /\ seam = None /\ muro = None /\ bg = None /\ fg = None /\ peeled = None
  /\ alpha = None

\* the gaps knockoutProcess is run with: the default, and no shaping
Gaps == {GapDefault, 0}

\* knockoutProcess(imgBitmap, {gap}), the other options at their defaults
Init ==
  /\ W \in 1 .. MaxDim
  /\ H \in 1 .. MaxDim
  /\ img \in Images(W, H)
  /\ gap \in Gaps
  /\ pc = "start"
  /\ Idle
  /\ arg = None /\ ret = None

\* 1) base masks
BaseMasks ==
  /\ pc = "start"
  /\ gray' = toGray(img, W, H)
  /\ thrInk' = BlendThreshold(otsu(gray'), InkDefault)
  /\ ink_mask' = InkMask(gray', thrInk', W, H)
  /\ ink_morph' = InkMorph(ink_mask', gap, W, H)
  /\ edge_dil' = EdgeDil(gray', EdgeDefault, W, H)
  /\ pc' = "masks"
  /\ UNCHANGED <<W, H, img, gap, rect, edge_dil2, ink_barrier, seam, muro, bg,
                 fg, peeled, alpha, arg, ret>>

\* 2) ROI / barriers
Barriers ==
  /\ pc = "masks"
  /\ rect' = RoiRect(ink_morph, W, H)
  /\ edge_dil2' = FilterEdges(edge_dil, rect', W, H)
  /\ ink_barrier' = InkBarrier(ink_mask, gap, W, H)
  /\ seam' = SeamStrip(rect', W, H)
  /\ muro' = Wall(ink_barrier', edge_dil2', seam', W, H)
  /\ pc' = "walls"
  /\ UNCHANGED <<W, H, img, gap, gray, thrInk, ink_mask, ink_morph, edge_dil,
                 bg, fg, peeled, alpha, arg, ret>>

\* 3) flood BG & peel halo
FloodPeel ==
  /\ pc = "walls"
  /\ bg' = floodBG(muro, NoPred, W, H)
  /\ fg' = Foreground(bg', W, H)
  /\ peeled' = peelOutside(fg', ink_morph, W, H, PeelPasses)
  /\ pc' = "peeled"
  /\ UNCHANGED <<W, H, img, gap, gray, thrInk, ink_mask, ink_morph, edge_dil,
                 rect, edge_dil2, ink_barrier, seam, muro, alpha, arg, ret>>

\* 4) alpha compose (before the feather blur)
AlphaCompose ==
  /\ pc = "peeled"
  /\ alpha' = AlphaMask(peeled, ink_morph, W, H)
  /\ pc' = "done"
  /\ UNCHANGED <<W, H, img, gap, gray, thrInk, ink_mask, ink_morph, edge_dil,
                 rect, edge_dil2, ink_barrier, seam, muro, bg, fg, peeled, arg, ret>>

Next == BaseMasks \/ Barriers \/ FloodPeel \/ AlphaCompose

Spec == Init /\ [][Next]_vars

(* --------------------- the helpers called on their own ---------------- *)

Masks(w, h) == [Pix(w, h) -> {0, 1}]

pipelineVars == <<img, gap, gray, thrInk, ink_mask, ink_morph, edge_dil, rect,
                  edge_dil2, ink_barrier, seam, muro, bg, fg, peeled, alpha>>

InitOp(dim) ==
  /\ W \in 1 .. dim
  /\ H \in 1 .. dim
  /\ img = None /\ gap = 0
  /\ Idle
  /\ ret = None

\* floodBG(muro, null, W, H) on any wall mask
InitFlood ==
  /\ InitOp(MaxOpDim)
  /\ pc = "call_floodBG"
  /\ \E m \in Masks(W, H) : arg = [muro |-> m, isBgLike |-> NoPred]

CallFloodBG ==
  /\ pc = "call_floodBG"
  /\ ret' = floodBG(arg.muro, arg.isBgLike, W, H)
  /\ pc' = "ret_floodBG"
  /\ UNCHANGED <<W, H, arg, pipelineVars>>

SpecFlood == InitFlood /\ [][CallFloodBG]_vars

\* dilate(m, W, H, n), then erode(m, W, H, n), on any mask m, for each n in
\* 0..MaxIt
InitMorph ==
  /\ InitOp(MaxOpDim)
  /\ pc = "call_dilate"
  /\ \E m \in Masks(W, H) : arg = [m |-> m]

CallDilate ==
  /\ pc = "call_dilate"
  /\ ret' = [dil |-> [n \in 0 .. MaxIt |-> dilate(arg.m, W, H, n)]]
  /\ pc' = "call_erode"
  /\ UNCHANGED <<W, H, arg, pipelineVars>>

CallErode ==
  /\ pc = "call_erode"
  /\ ret' = [dil |-> ret.dil, ero |-> [n \in 0 .. MaxIt |-> erode(arg.m, W, H, n)]]
  /\ pc' = "ret_morph"
  /\ UNCHANGED <<W, H, arg, pipelineVars>>

NextMorph == CallDilate \/ CallErode

SpecMorph == InitMorph /\ [][NextMorph]_vars

\* peelOutside(fg, protect, W, H, n) on any two masks, for each n in 0..MaxIt
InitPeel ==
  /\ InitOp(MaxPeelDim)
  /\ pc = "call_peelOutside"
  /\ \E f \in Masks(W, H), m \in Masks(W, H) : arg = [fg |-> f, protect |-> m]

CallPeelOutside ==
  /\ pc = "call_peelOutside"
  /\ ret' = [n \in 0 .. MaxIt |-> peelOutside(arg.fg, arg.protect, W, H, n)]
  /\ pc' = "ret_peelOutside"
  /\ UNCHANGED <<W, H, arg, pipelineVars>>

SpecPeel == InitPeel /\ [][CallPeelOutside]_vars

\* otsu(gray) on any buffer of 1..MaxLen bytes over a few grey levels
Levels == {0, 1, 100, 200, 255}

InitOtsu ==
  /\ W \in 1 .. MaxLen
  /\ H = 1
  /\ img = None /\ gap = 0
  /\ Idle
  /\ ret = None
  /\ pc = "call_otsu"
  /\ \E g \in [Pix(W, H) -> Levels] : arg = [gray |-> g]

CallOtsu ==
  /\ pc = "call_otsu"
  /\ ret' = otsu(arg.gray)
  /\ pc' = "ret_otsu"
  /\ UNCHANGED <<W, H, arg, pipelineVars>>

SpecOtsu == InitOtsu /\ [][CallOtsu]_vars

\* the ink shaping, the guarded barrier and the flood over it, for the ink
\* masks of one rectangle and any gap in -MaxGap..MaxGap
InitGuard ==
  /\ InitOp(MaxDim)
  /\ pc = "call_guard"
  /\ \E m \in RectMasks(W, H), g \in (-MaxGap) .. MaxGap : arg = [ink_mask |-> m, gap |-> g]

CallGuard ==
  /\ pc = "call_guard"
  /\ LET morph == InkMorph(arg.ink_mask, arg.gap, W, H)
         barrier == InkBarrier(arg.ink_mask, arg.gap, W, H)
         wall == Wall(barrier, Zeros(W, H), Zeros(W, H), W, H)
     IN  ret' = [ink_morph |-> morph, ink_barrier |-> barrier, muro |-> wall,
                 bg |-> floodBG(wall, NoPred, W, H)]
  /\ pc' = "ret_guard"
  /\ UNCHANGED <<W, H, arg, pipelineVars>>

SpecGuard == InitGuard /\ [][CallGuard]_vars

(* ------------------------------ properties ---------------------------- *)

PixX(p) == p % W
PixY(p) == p \div W
SubMask(a, b) == \A p \in Pix(W, H) : a[p] = 1 => b[p] = 1

\* the non-wall pixels joined to a non-wall border pixel by a path of
\* 4-connected non-wall pixels, from the pixels' coordinates
OnBorder(p) == PixX(p) = 0 \/ PixX(p) = W - 1 \/ PixY(p) = 0 \/ PixY(p) = H - 1
Touching(p, u) ==
  \/ (PixY(p) = PixY(u) /\ Abs(PixX(p) - PixX(u)) = 1)
  \/ (PixX(p) = PixX(u) /\ Abs(PixY(p) - PixY(u)) = 1)

RECURSIVE Spread(_, _)
Spread(S, wall) ==
  LET T == S \cup {u \in Pix(W, H) : wall[u] = 0 /\ \E p \in S : Touching(p, u)}
  IN  IF T = S THEN S ELSE Spread(T, wall)

BorderConnected(wall) == Spread({p \in Pix(W, H) : OnBorder(p) /\ wall[p] = 0}, wall)

\* C1: floodBG without a predicate marks exactly the non-barrier pixels that
\* a path of 4-connected non-barrier pixels joins to a non-barrier border
\* pixel; so no barrier pixel is marked and no step wraps around a row end.
C1_FloodMarksBorderConnected ==
  pc = "ret_floodBG" =>
    LET joined == BorderConnected(arg.muro) IN
    \A p \in Pix(W, H) : (ret[p] = 1) <=> (p \in joined)

\* a 3x3 flood that reaches the centre through its only open neighbour
C1_Witness ==
  /\ pc = "ret_floodBG" /\ W = 3 /\ H = 3
  /\ arg.muro[1] = 1 /\ arg.muro[3] = 1 /\ arg.muro[5] = 1
  /\ arg.muro[7] = 0 /\ arg.muro[4] = 0
  /\ ret[4] = 1 /\ ret[1] = 0

\* an all-white image run with the default options
AllWhite == gap = GapDefault /\ \A p \in Pix(W, H) : img[p] = 255

\* C2: for an all-white image of any size and default options the alpha
\* mask (before feathering) is 0 at every pixel.
C2_AllWhiteAlphaZero ==
  (pc = "done" /\ AllWhite) => \A p \in Pix(W, H) : alpha[p] = 0

\* C3: for an all-white image of any size and default options the ink mask
\* is empty, the rectangle is (0, 0, W, H), the wall mask holds no pixel and
\* the flood fill marks every pixel background.
C3_AllWhiteAllBackground ==
  (pc \in {"peeled", "done"} /\ AllWhite) =>
    /\ \A p \in Pix(W, H) : ink_mask[p] = 0
    /\ rect = <<0, 0, W, H>>
    /\ \A p \in Pix(W, H) : muro[p] = 0 /\ bg[p] = 1

\* the 6x6 white image with the black 2x2 square at columns 2..3, rows 2..3
SquareScene == W = 6 /\ H = 6 /\ gap = GapDefault /\ img = RectImage(6, 6, 2, 3, 2, 3)
Corners == {0, W - 1, (H - 1) * W, H * W - 1}
SquarePixels == {14, 15, 20, 21}

\* C4, as claimed: in the square scene the alpha mask is 0 at the four
\* corners and 255 over the square.
C4_CornersTransparent ==
  (pc = "done" /\ SquareScene) =>
    /\ \A p \in Corners : alpha[p] = 0
    /\ \A p \in SquarePixels : alpha[p] = 255

\* C4, amended: in the square scene the alpha mask is 255 at every pixel,
\* the four corners included: the shaped ink mask is empty, the guarded ink
\* barrier covers the whole grid and the flood fill marks nothing.
C4_SquareSceneOpaque ==
  (pc = "done" /\ SquareScene) =>
    /\ \A p \in Pix(W, H) : ink_morph[p] = 0 /\ ink_barrier[p] = 1 /\ bg[p] = 0
    /\ \A p \in Pix(W, H) : alpha[p] = 255

C4_Witness ==
  /\ pc = "done" /\ SquareScene
  /\ thrInk = 32
  /\ \A p \in Pix(W, H) : (ink_mask[p] = 1) <=> (p \in SquarePixels)
  /\ \A p \in Corners : alpha[p] = 255

GrayValues == {arg.gray[i] : i \in DOMAIN arg.gray}
LowValue == CHOOSE a \in GrayValues : \A b \in GrayValues : a <= b
HighValue == CHOOSE b \in GrayValues : \A a \in GrayValues : a <= b
TwoValued == Cardinality(GrayValues) = 2

\* C5, as claimed: for a buffer of exactly two distinct values a < b, otsu
\* returns a threshold strictly between them, a < t < b.
C5_StrictlyBetween ==
  (pc = "ret_otsu" /\ TwoValued) => (LowValue < ret /\ ret < HighValue)

\* C5, amended: for a buffer of exactly two distinct values a < b, otsu
\* returns a itself, the first threshold of the maximum: a <= t < b.
C5_ReturnsLowValue ==
  (pc = "ret_otsu" /\ TwoValued) => (ret = LowValue /\ ret < HighValue)

C5_Witness ==
  /\ pc = "ret_otsu" /\ TwoValued
  /\ LowValue = 1 /\ HighValue = 200 /\ ret = 1

\* C6: peelOutside never removes a protected pixel: a pixel that is 1 in
\* fg and 1 in protect is 1 in the result, for every iteration count.
C6_ProtectedKept ==
  pc = "ret_peelOutside" =>
    \A n \in DOMAIN ret : \A i \in Pix(W, H) :
      (arg.fg[i] = 1 /\ arg.protect[i] = 1) => ret[n][i] = 1

\* a protected pixel beside a background pixel is kept while an unprotected
\* one beside a background pixel is removed
C6_Witness ==
  /\ pc = "ret_peelOutside"
  /\ \E i, j, k \in Pix(W, H) :
       /\ arg.fg[i] = 1 /\ arg.protect[i] = 1
       /\ arg.fg[j] = 0 /\ Touching(i, j)
       /\ arg.fg[k] = 1 /\ arg.protect[k] = 0
       /\ ret[1][i] = 1 /\ ret[1][k] = 0

\* C7: for iteration counts n1 <= n2, dilate(mask, n1) is a subset of
\* dilate(mask, n2) and erode(mask, n2) is a subset of erode(mask, n1).
C7_MorphMonotone ==
  pc = "ret_morph" =>
    \A n1 \in 0 .. MaxIt : \A n2 \in n1 .. MaxIt :
      /\ SubMask(ret.dil[n1], ret.dil[n2])
      /\ SubMask(ret.ero[n2], ret.ero[n1])

\* a mask that two dilations keep growing and one erosion shrinks
C7_Witness ==
  /\ pc = "ret_morph" /\ W = 3 /\ H = 3
  /\ ret.dil[0] # ret.dil[1] /\ ret.dil[1] # ret.dil[2]
  /\ ret.ero[0] # ret.ero[1]

InRange(v, lo, hi) == lo <= v /\ v <= hi
AfterBarriers == pc \in {"walls", "peeled", "done"}

\* C8: the filtered edge mask is 0 inside the rectangle expanded by 1 pixel
\* in every direction (rx-1 <= x <= rx+rw, ry-1 <= y <= ry+rh) and keeps the
\* dilated edge mask's value at every pixel outside it.
C8_EdgesClearedOneAround ==
  AfterBarriers =>
    \A p \in Pix(W, H) :
      IF /\ InRange(PixX(p), rect[1] - 1, rect[1] + rect[3])
         /\ InRange(PixY(p), rect[2] - 1, rect[2] + rect[4])
      THEN edge_dil2[p] = 0
      ELSE edge_dil2[p] = edge_dil[p]

\* C9: the seam strip is exactly the pixels of the two rows just below the
\* rectangle (ry+rh and ry+rh+1) in the columns rx-2 .. rx+rw+1, clipped to
\* the image.
C9_SeamBelowRect ==
  AfterBarriers =>
    \A p \in Pix(W, H) :
      (seam[p] = 1) <=>
        /\ InRange(PixY(p), rect[2] + rect[4], rect[2] + rect[4] + 1)
        /\ InRange(PixX(p), rect[1] - 2, rect[1] + rect[3] + 1)

\* C10: for every gap the guarded ink barrier contains the one-iteration
\* dilation of the shaped ink mask, so the shaped ink and its 8 neighbours
\* are wall pixels, which the flood fill does not mark background.
C10_BarrierCoversShapedInk ==
  pc = "ret_guard" =>
    LET around == dilate(ret.ink_morph, W, H, 1) IN
    \A p \in Pix(W, H) :
      around[p] = 1 => (ret.ink_barrier[p] = 1 /\ ret.muro[p] = 1 /\ ret.bg[p] = 0)

\* a shaped ink mask whose barrier leaves part of the image to the flood
C10_Witness ==
  /\ pc = "ret_guard"
  /\ \E p \in Pix(W, H) : ret.ink_morph[p] = 1
  /\ \E p \in Pix(W, H) : ret.bg[p] = 1
  /\ \E p \in Pix(W, H) : ret.ink_barrier[p] = 1 /\ ret.ink_morph[p] = 0

=============================================================================
